---------------------------- MODULE Spec2Model ----------------------------
(* One-dimensional cellular automata on a ring (cellular_automata.py):    *)
(* the binary() helper, Rule construction and lookup, and the             *)
(* CellularAutomata state with its seeding, stepping and run loop.        *)
EXTENDS Integers, Sequences, FiniteSets, TLC

VARIABLES
    size,             \* CellularAutomata._size
    cells,            \* CellularAutomata.cells (1-based here, 0-based in the source)
    pc,               \* position of the caller / of run / of next_generation
    op,               \* the call in progress or last made, with its arguments
    i,                \* next_generation: loop variable i
    next_cells,       \* next_generation: local next_cells
    iteration,        \* run: local iteration
    iteration_limit,  \* run: local iteration_limit (after the None default)
    out,              \* lines printed by the call in progress or last made
    err,              \* exception raised by the last call ("none" if it returned)
    ret               \* value returned by the last call of a pure function

vars == <<size, cells, pc, op, i, next_cells, iteration, iteration_limit, out, err, ret>>

-----------------------------------------------------------------------------
(* Bounds *)

MaxDigits == 5      \* binary(): digits ranges over 0..MaxDigits
MaxN == 3           \* Rule(): n ranges over 1..MaxN
MaxNumber == 256    \* Rule(): number ranges over -1..MaxNumber
MaxSize == 3        \* ring sizes 1..MaxSize
MaxLimit == 2       \* run(): explicit iteration_limit ranges over -1..MaxLimit
MaxIter == 3        \* run(): an unlimited loop is followed while iteration < MaxIter

(* Program constants of the __main__ block *)
SierpinskiSize == 255
SierpinskiRule == 90
SierpinskiLimit == 127

\* Python's None, and an optional argument that was supplied
None == <<>>
Some(x) == <<x>>

-----------------------------------------------------------------------------
(* binary(number, digits) *)

RECURSIVE bin(_)
\* bin(number).removeprefix("0b") for number >= 0: shortest digit string
bin(number) ==
    IF number < 2 THEN <<IF number = 0 THEN "0" ELSE "1">>
    ELSE bin(number \div 2) \o <<IF number % 2 = 0 THEN "0" ELSE "1">>

\* mutant: no zero padding
zfill_none(str, width) == str

\* str.zfill(width): pads on the left with "0", never truncates
zfill(str, width) ==
    IF Len(str) >= width THEN str
    ELSE [k \in 1..(width - Len(str)) |-> "0"] \o str

\* int(c) for a one-character digit string
int(c) == IF c = "0" THEN 0 ELSE 1

\* the assertion of binary()
binary_assert(number, digits) == 0 <= number /\ number < 2^digits

\* mutant: the digits are produced least-significant first
binary_lsb(number, digits) ==
    LET binary_str == zfill(bin(number), digits)
    IN  [k \in 1..Len(binary_str) |-> int(binary_str[Len(binary_str) - k + 1])]

binary(number, digits) ==
    LET binary_str == zfill(bin(number), digits)
    IN  [k \in 1..Len(binary_str) |-> int(binary_str[k])]

-----------------------------------------------------------------------------
(* class Rule *)

EmptyDict == [key \in {} |-> 0]

\* mapping[key] = value on a dict: a later assignment replaces an earlier one
DictSet(mapping, key, value) == (key :> value) @@ mapping

\* zip(range(2**n), binary(number, 2**n)): as long as the shorter of the two
ZipLen(number, n) ==
    IF Len(binary(number, 2^n)) < 2^n THEN Len(binary(number, 2^n)) ELSE 2^n

RECURSIVE get_mapping_loop_lsb(_, _, _, _)
\* mutant: the digits of the rule number are paired least-significant first
get_mapping_loop_lsb(number, n, k, mapping) ==
    IF k >= ZipLen(number, n) THEN mapping
    ELSE get_mapping_loop_lsb(number, n, k + 1,
             DictSet(mapping, binary(k, n), binary(number, 2^n)[2^n - k]))

RECURSIVE get_mapping_loop(_, _, _, _)
get_mapping_loop(number, n, k, mapping) ==
    IF k >= ZipLen(number, n) THEN mapping
    ELSE get_mapping_loop(number, n, k + 1,
             DictSet(mapping, binary(k, n), binary(number, 2^n)[k + 1]))

get_mapping(number, n) == get_mapping_loop(number, n, 0, EmptyDict)

\* mutant: only the two assertions of __init__, as if binary() checked nothing
Rule_assert_init_only(number, n) ==
    /\ number < 2^(2^n)
    /\ n % 2 = 1

\* the assertions met while constructing Rule(number, n), those of binary() included
Rule_assert(number, n) ==
    /\ number < 2^(2^n)
    /\ n % 2 = 1
    /\ binary_assert(number, 2^n)
    /\ \A k \in 0..(2^n - 1) : binary_assert(k, n)

Rule(number, n) ==
    [number |-> number, n |-> n, mapping |-> get_mapping(number, n)]

get_next_cell_assert(rule, interval_cells) == Len(interval_cells) = rule.n

\* the dict lookup raises KeyError on a missing key
get_next_cell_found(rule, interval_cells) == interval_cells \in DOMAIN rule.mapping

RECURSIVE PatternIndex(_)
\* the number whose binary digits, most significant first, are the tuple
PatternIndex(tuple) ==
    IF tuple = <<>> THEN 0
    ELSE 2 * PatternIndex(SubSeq(tuple, 1, Len(tuple) - 1)) + tuple[Len(tuple)]

\* mutant: the output is bit PatternIndex of the rule number counted from the
\* least significant end (the usual numbering of elementary rules)
get_next_cell_wolfram(rule, interval_cells) ==
    (rule.number \div 2^PatternIndex(interval_cells)) % 2

get_next_cell(rule, interval_cells) == rule.mapping[interval_cells]

-----------------------------------------------------------------------------
(* class CellularAutomata *)

SYMBOLS == (0 :> " ") @@ (1 :> "#")

\* CellularAutomata.__str__
str(cs) == [k \in 1..Len(cs) |-> SYMBOLS[cs[k]]]

\* mutant: one cell too many
zeroes_extra(s) == [k \in 1..(s + 1) |-> 0]

\* [0] * size
zeroes(s) == [k \in 1..s |-> 0]

\* mutant: indices are clamped to the ends of the array instead of wrapping
PyMod_clamp(a, b) == IF a < 0 THEN 0 ELSE IF a >= b THEN b - 1 ELSE a

\* rel_i % self.size: Python's remainder has the sign of the divisor
PyMod(a, b) == a % b

\* mutant: the middle is rounded up
middle_round_up(s) == (s + 1) \div 2

\* position chosen by init_single when pos is None
middle(s) == s \div 2

\* mutant: the upper bound of the position is inclusive
init_single_assert_inclusive(s, pos) == pos = None \/ (0 <= pos[1] /\ pos[1] <= s)

\* the assertion of init_single (only reached with an explicit position)
init_single_assert(s, pos) == pos = None \/ (0 <= pos[1] /\ pos[1] < s)

\* cells left by init_single: zeroed first, then one cell set if the assertion holds
init_single_cells(s, pos) ==
    IF pos = None THEN [zeroes(s) EXCEPT ![middle(s) + 1] = 1]
    ELSE IF init_single_assert(s, pos) THEN [zeroes(s) EXCEPT ![pos[1] + 1] = 1]
    ELSE zeroes(s)

\* tuple(range(i - margin, i + margin + 1))
interval_indices(idx, margin) ==
    [k \in 1..(2 * margin + 1) |-> idx - margin + k - 1]

\* the neighbourhood of position idx read from cs on a ring of s cells
interval_cells(cs, s, idx, margin) ==
    LET indices == interval_indices(idx, margin)
    IN  [k \in 1..Len(indices) |-> cs[PyMod(indices[k], s) + 1]]

\* mutant: the test "iteration_limit > 0" is forgotten
run_break_no_guard(iter, limit) == iter > limit

\* the break condition of run: iteration > iteration_limit > 0
run_break(iter, limit) == iter > limit /\ limit > 0

\* mutant: the default is half the ring size rounded down from size - 1
run_limit_short(s, limit) == IF limit = None THEN (s - 1) \div 2 ELSE limit[1]

\* iteration_limit as run uses it
run_limit(s, limit) == IF limit = None THEN s \div 2 ELSE limit[1]

\* Rule objects a caller can hold: every successful construction within the bounds
ValidRules ==
    { Rule(p[1], p[2]) :
        p \in { q \in (0..MaxNumber) \X (1..MaxN) : Rule_assert(q[1], q[2]) } }

Idle == pc = "idle"

-----------------------------------------------------------------------------
(* Initial state: CellularAutomata(size) just constructed *)

Constructed(s) ==
    /\ size = s
    /\ cells = zeroes(s)
    /\ pc = "idle"
    /\ op = [name |-> "__init__"]
    /\ i = 0
    /\ next_cells = <<>>
    /\ iteration = 0
    /\ iteration_limit = 0
    /\ out = <<>>
    /\ err = "none"
    /\ ret = None

Init == \E s \in 1..MaxSize : Constructed(s)

\* locals of next_generation and run do not exist outside the call
NoLocals ==
    /\ i' = 0
    /\ next_cells' = <<>>
    /\ iteration' = 0
    /\ iteration_limit' = 0
    /\ out' = <<>>

-----------------------------------------------------------------------------
(* Calls of the pure functions *)

binary_call(number, digits) ==
    /\ Idle
    /\ op' = [name |-> "binary", number |-> number, digits |-> digits]
    /\ IF binary_assert(number, digits)
       THEN err' = "none" /\ ret' = binary(number, digits)
       ELSE err' = "AssertionError" /\ ret' = None
    /\ NoLocals
    /\ pc' = "done"
    /\ UNCHANGED <<size, cells>>

\* Rule(number, n); number = None draws the number at random and prints it
Rule_call(number, n) ==
    /\ Idle
    /\ op' = [name |-> "Rule", number |-> number, n |-> n]
    /\ \E drawn \in (IF number = None THEN 0..(2^(2^n) - 1) ELSE {number[1]}) :
         /\ out' = IF number = None
                   THEN <<<<"Randomly generated rule", drawn, n>>>>
                   ELSE <<>>
         /\ IF Rule_assert(drawn, n)
            THEN err' = "none" /\ ret' = Rule(drawn, n)
            ELSE err' = "AssertionError" /\ ret' = None
    /\ i' = 0
    /\ next_cells' = <<>>
    /\ iteration' = 0
    /\ iteration_limit' = 0
    /\ pc' = "done"
    /\ UNCHANGED <<size, cells>>

\* rule.get_next_cell(tuple) on a Rule object constructed earlier
get_next_cell_call(rule, tuple) ==
    /\ pc \in {"idle", "done"}
    /\ op' = [name |-> "get_next_cell", rule |-> rule, interval_cells |-> tuple]
    /\ IF ~get_next_cell_assert(rule, tuple)
       THEN err' = "AssertionError" /\ ret' = None
       ELSE IF ~get_next_cell_found(rule, tuple)
       THEN err' = "KeyError" /\ ret' = None
       ELSE err' = "none" /\ ret' = Some(get_next_cell(rule, tuple))
    /\ NoLocals
    /\ pc' = "done"
    /\ UNCHANGED <<size, cells>>

-----------------------------------------------------------------------------
(* Operations of CellularAutomata *)

\* mutant: assigning the size it already has is treated as no change
size_set_unless_same(value) ==
    /\ Idle
    /\ op' = [name |-> "size", value |-> value]
    /\ size' = value
    /\ cells' = IF value = size THEN cells ELSE zeroes(value)
    /\ err' = "none"
    /\ ret' = None
    /\ NoLocals
    /\ pc' = "done"

\* the size setter
size_set(value) ==
    /\ Idle
    /\ op' = [name |-> "size", value |-> value]
    /\ size' = value
    /\ cells' = zeroes(value)
    /\ err' = "none"
    /\ ret' = None
    /\ NoLocals
    /\ pc' = "done"

init_zeroes ==
    /\ Idle
    /\ op' = [name |-> "init_zeroes"]
    /\ cells' = zeroes(size)
    /\ err' = "none"
    /\ ret' = None
    /\ NoLocals
    /\ pc' = "done"
    /\ UNCHANGED size

init_single(pos) ==
    /\ Idle
    /\ op' = [name |-> "init_single", pos |-> pos]
    /\ cells' = init_single_cells(size, pos)
    /\ err' = IF init_single_assert(size, pos) THEN "none" ELSE "AssertionError"
    /\ ret' = None
    /\ NoLocals
    /\ pc' = "done"
    /\ UNCHANGED size

randomize ==
    /\ Idle
    /\ op' = [name |-> "randomize"]
    /\ cells' \in [1..size -> {0, 1}]
    /\ err' = "none"
    /\ ret' = None
    /\ NoLocals
    /\ pc' = "done"
    /\ UNCHANGED size

\* next_generation(rule) called directly: entry, up to the first loop test
next_generation_call(rule) ==
    /\ Idle
    /\ op' = [name |-> "next_generation", rule |-> rule]
    /\ pc' = "next_generation"
    /\ err' = "none"
    /\ ret' = None
    /\ NoLocals
    /\ UNCHANGED <<size, cells>>

\* mutant: the lookup removes the key it reads (dict.pop instead of indexing)
next_generation_loop_pop ==
    /\ pc = "next_generation"
    /\ i < size
    /\ LET rule == op.rule
           margin == rule.n \div 2
           tuple == interval_cells(cells, size, i, margin)
       IN  IF ~get_next_cell_assert(rule, tuple)
           THEN /\ err' = "AssertionError"
                /\ pc' = "done"
                /\ UNCHANGED <<i, next_cells, op>>
           ELSE IF ~get_next_cell_found(rule, tuple)
           THEN /\ err' = "KeyError"
                /\ pc' = "done"
                /\ UNCHANGED <<i, next_cells, op>>
           ELSE /\ next_cells' = Append(next_cells, get_next_cell(rule, tuple))
                /\ op' = [op EXCEPT !.rule.mapping =
                             [key \in (DOMAIN rule.mapping) \ {tuple} |->
                                 rule.mapping[key]]]
                /\ i' = i + 1
                /\ UNCHANGED <<err, pc>>
    /\ UNCHANGED <<size, cells, iteration, iteration_limit, out, ret>>

\* mutant: the new value is also written into self.cells during the sweep
next_generation_loop_in_place ==
    /\ pc = "next_generation"
    /\ i < size
    /\ LET rule == op.rule
           margin == rule.n \div 2
           tuple == interval_cells(cells, size, i, margin)
       IN  IF ~get_next_cell_assert(rule, tuple)
           THEN /\ err' = "AssertionError"
                /\ pc' = "done"
                /\ UNCHANGED <<i, next_cells, cells>>
           ELSE IF ~get_next_cell_found(rule, tuple)
           THEN /\ err' = "KeyError"
                /\ pc' = "done"
                /\ UNCHANGED <<i, next_cells, cells>>
           ELSE /\ next_cells' = Append(next_cells, get_next_cell(rule, tuple))
                /\ cells' = [cells EXCEPT ![i + 1] = get_next_cell(rule, tuple)]
                /\ i' = i + 1
                /\ UNCHANGED <<err, pc>>
    /\ UNCHANGED <<size, op, iteration, iteration_limit, out, ret>>

\* one pass of the for loop of next_generation
next_generation_loop ==
    /\ pc = "next_generation"
    /\ i < size
    /\ LET rule == op.rule
           margin == rule.n \div 2
           tuple == interval_cells(cells, size, i, margin)
       IN  IF ~get_next_cell_assert(rule, tuple)
           THEN /\ err' = "AssertionError"
                /\ pc' = "done"
                /\ UNCHANGED <<i, next_cells>>
           ELSE IF ~get_next_cell_found(rule, tuple)
           THEN /\ err' = "KeyError"
                /\ pc' = "done"
                /\ UNCHANGED <<i, next_cells>>
           ELSE /\ next_cells' = Append(next_cells, get_next_cell(rule, tuple))
                /\ i' = i + 1
                /\ UNCHANGED <<err, pc>>
    /\ UNCHANGED <<size, cells, op, iteration, iteration_limit, out, ret>>

\* the loop is exhausted: self.cells = next_cells, and back to the caller
next_generation_return ==
    /\ pc = "next_generation"
    /\ i >= size
    /\ cells' = next_cells
    /\ pc' = IF op.name = "run" THEN "run_check" ELSE "done"
    /\ i' = 0
    /\ next_cells' = <<>>
    /\ UNCHANGED <<size, op, iteration, iteration_limit, out, err, ret>>

\* mutant: the loop advances before it prints
run_call_advance_first(rule, limit) ==
    /\ Idle
    /\ op' = [name |-> "run", rule |-> rule, iteration_limit |-> limit]
    /\ iteration_limit' = run_limit(size, limit)
    /\ iteration' = 0
    /\ pc' = "next_generation"
    /\ out' = <<>>
    /\ err' = "none"
    /\ ret' = None
    /\ i' = 0
    /\ next_cells' = <<>>
    /\ UNCHANGED <<size, cells>>

\* run(rule, iteration_limit): entry, up to the head of the while loop
run_call(rule, limit) ==
    /\ Idle
    /\ op' = [name |-> "run", rule |-> rule, iteration_limit |-> limit]
    /\ iteration_limit' = run_limit(size, limit)
    /\ iteration' = 0
    /\ pc' = "run_print"
    /\ out' = <<>>
    /\ err' = "none"
    /\ ret' = None
    /\ i' = 0
    /\ next_cells' = <<>>
    /\ UNCHANGED <<size, cells>>

\* print(self), then the call of self.next_generation(rule)
run_print ==
    /\ pc = "run_print"
    /\ out' = Append(out, str(cells))
    /\ pc' = "next_generation"
    /\ i' = 0
    /\ next_cells' = <<>>
    /\ UNCHANGED <<size, cells, op, iteration, iteration_limit, err, ret>>

\* iteration += 1 and the break test; the locals keep their values at the break
run_check ==
    /\ pc = "run_check"
    /\ iteration_limit > 0 \/ iteration < MaxIter
    /\ iteration' = iteration + 1
    /\ pc' = IF run_break(iteration + 1, iteration_limit) THEN "done" ELSE "run_print"
    /\ UNCHANGED <<size, cells, op, i, next_cells, iteration_limit, out, err, ret>>

\* the caller has seen the outcome of the finished call and goes on
caller_continue ==
    /\ pc = "done"
    /\ pc' = "idle"
    /\ op' = [name |-> "none"]
    /\ err' = "none"
    /\ ret' = None
    /\ NoLocals
    /\ UNCHANGED <<size, cells>>

-----------------------------------------------------------------------------
(* Specifications *)

Positions == {None} \cup { Some(p) : p \in -1..MaxSize }
Limits == {None} \cup { Some(l) : l \in -1..MaxLimit }

\* the guard Idle of the calls is stated once, ahead of the choice of arguments
Next ==
    \/ Idle /\ \E value \in 1..MaxSize : size_set(value)
    \/ init_zeroes
    \/ Idle /\ \E pos \in Positions : init_single(pos)
    \/ randomize
    \/ Idle /\ \E rule \in ValidRules : next_generation_call(rule)
    \/ next_generation_loop
    \/ next_generation_return
    \/ Idle /\ \E rule \in ValidRules, limit \in Limits : run_call(rule, limit)
    \/ run_print
    \/ run_check
    \/ caller_continue

Spec == Init /\ [][Next]_vars

\* binary() applied to every input within the bounds
NextBinary ==
    \/ \E number \in -1..(2^MaxDigits + 1), digits \in 0..MaxDigits :
          binary_call(number, digits)
    \/ caller_continue

SpecBinary == Init /\ [][NextBinary]_vars

\* tuples handed to get_next_cell: every length up to MaxN + 1
Tuples == UNION { [1..len -> {0, 1}] : len \in 0..(MaxN + 1) }

\* Rule construction on every input within the bounds, then lookups on the result
NextRule ==
    \/ \E n \in 1..MaxN, number \in {None} \cup { Some(x) : x \in -1..MaxNumber } :
          Rule_call(number, n)
    \/ \E tuple \in Tuples :
          \/ op.name = "Rule" /\ err = "none" /\ get_next_cell_call(ret, tuple)
          \/ op.name = "get_next_cell" /\ get_next_cell_call(op.rule, tuple)
    \/ caller_continue

SpecRule == Init /\ [][NextRule]_vars

\* the statements of the while loop of run, executed one after the other
RunStep ==
    \/ run_print
    \/ next_generation_loop
    \/ next_generation_return
    \/ run_check

\* run(rule) with iteration_limit omitted, on every ring content; the loop of
\* run is sequential code, so a step of it that can be taken is taken
NextDefaultRun ==
    \/ randomize
    \/ Idle /\ \E rule \in ValidRules : run_call(rule, None)
    \/ run_print
    \/ next_generation_loop
    \/ next_generation_return
    \/ run_check
    \/ caller_continue

SpecDefaultRun == Init /\ [][NextDefaultRun]_vars /\ WF_vars(RunStep)

\* Rule 90 on the ring of the __main__ block, seeded in the middle and run once
InitSierpinski == Constructed(SierpinskiSize)

NextSierpinski ==
    \/ init_single(None)
    \/ /\ cells = init_single_cells(size, None)
       /\ run_call(Rule(SierpinskiRule, 3), Some(SierpinskiLimit))
    \/ run_print
    \/ next_generation_loop
    \/ next_generation_return
    \/ run_check
    \/ caller_continue

SpecSierpinski == InitSierpinski /\ [][NextSierpinski]_vars

-----------------------------------------------------------------------------
(* Properties of run *)

\* C1: run(rule, L) with L > 0 stops after exactly L calls of next_generation.
\* iteration counts the calls of next_generation that have returned.
C1_StopsAfterLimitAdvances ==
    (pc = "done" /\ op.name = "run" /\ iteration_limit > 0)
        => (iteration = iteration_limit /\ Len(out) = iteration_limit)

\* C2: with iteration_limit <= 0 (zero included) run never stops: every test
\* of the break condition leads back to the print, every print is followed by
\* the advance, the call never finishes, and the next step of the loop is
\* always possible.
C2_Running == op.name = "run" /\ pc # "done" /\ iteration_limit <= 0

-----------------------------------------------------------------------------
(* Properties of Rule *)

\* the n-digit key of pattern index idx, computed arithmetically
PatternKey(idx, n) == [k \in 1..n |-> (idx \div 2^(n - k)) % 2]

\* digit idx (from the most significant end) of number written with width digits
DigitFromMsb(number, width, idx) == (number \div 2^(width - 1 - idx)) % 2

\* C3: mapping[binary(i, n)] is digit i, counted from the most significant
\* end, of the rule number written with 2^n binary digits.
C3_MappingIsMsbDigit ==
    (pc = "done" /\ op.name = "Rule" /\ err = "none") =>
        \A idx \in 0..(2^ret.n - 1) :
            /\ PatternKey(idx, ret.n) \in DOMAIN ret.mapping
            /\ ret.mapping[PatternKey(idx, ret.n)]
                   = DigitFromMsb(ret.number, 2^ret.n, idx)

C3_Witness ==
    /\ pc = "done" /\ op.name = "Rule" /\ err = "none"
    /\ ret.n = 3 /\ ret.number = 110
    /\ ret.mapping[<<0, 0, 1>>] = 1
    /\ ret.mapping[<<1, 1, 0>>] = 1
    /\ ret.mapping[<<1, 1, 1>>] = 0

-----------------------------------------------------------------------------
(* Properties of next_generation *)

\* C4: the step that installs the new generation gives every position i the
\* rule's output for (old[(i-m) mod S], ..., old[(i+m) mod S]); for n = 3
\* position 0 reads old[S-1] on its left and position S-1 reads old[0] on its
\* right, also when S < n.
C4_NewCellsFromRing ==
    [][(pc = "next_generation" /\ i >= size) =>
        LET rule == op.rule
            m == rule.n \div 2
            S == size
        IN  /\ Len(cells') = S
            /\ \A idx \in 0..(S - 1) :
                 cells'[idx + 1] =
                    rule.mapping[[k \in 1..rule.n |->
                                    cells[((idx - m + k - 1) % S) + 1]]]
            /\ rule.n = 3 =>
                 /\ cells'[1] =
                      rule.mapping[<<cells[S], cells[1],
                                     cells[IF S = 1 THEN 1 ELSE 2]>>]
                 /\ cells'[S] =
                      rule.mapping[<<cells[IF S = 1 THEN 1 ELSE S - 1],
                                     cells[S], cells[1]>>]]_vars

\* a generation computed on a ring smaller than the neighbourhood, where the
\* left neighbour of position 0 is the only live cell
C4_Witness ==
    /\ pc = "done" /\ op.name = "next_generation"
    /\ size = 2 /\ op.rule.n = 3 /\ op.rule.number = 4
    /\ cells = <<1, 0>>

-----------------------------------------------------------------------------
(* Rule 90 from a single seed *)

RECURSIVE BitAnd(_, _)
\* bitwise and of two naturals
BitAnd(a, b) ==
    IF a = 0 \/ b = 0 THEN 0
    ELSE (a % 2) * (b % 2) + 2 * BitAnd(a \div 2, b \div 2)

\* a state of the seeded ring between two generations: right after
\* init_single, or within run outside the installation of next_cells
SierpinskiObserved ==
    \/ pc = "done" /\ op.name = "init_single"
    \/ op.name = "run"

\* number of calls of next_generation that have returned since the seeding
SierpinskiGen ==
    IF op.name = "run"
    THEN IF pc = "run_check" THEN iteration + 1 ELSE iteration
    ELSE 0

\* C5 as stated: after g <= 127 generations of Rule(90) from the seed at 127,
\* cell i is 1 iff bitwise_and(i, g) = 0.
C5_CellIffAndZero ==
    (SierpinskiObserved /\ SierpinskiGen <= SierpinskiLimit) =>
        \A idx \in 0..(size - 1) :
            (cells[idx + 1] = 1) <=> (BitAnd(idx, SierpinskiGen) = 0)

\* C5 amended: after g <= 127 generations of Rule(90) from the seed at 127,
\* cell i is 1 iff, with d = i - 127, |d| <= g, g + d is even and
\* bitwise_and((g + d) / 2, (g - d) / 2) = 0 (binomial(g, (g + d) / 2) is odd).
C5_CellIffBinomialOdd ==
    (SierpinskiObserved /\ SierpinskiGen <= SierpinskiLimit) =>
        \A idx \in 0..(size - 1) :
            LET g == SierpinskiGen
                d == idx - SierpinskiSize \div 2
            IN  (cells[idx + 1] = 1) <=>
                    /\ -g <= d /\ d <= g
                    /\ (g + d) % 2 = 0
                    /\ BitAnd((g + d) \div 2, (g - d) \div 2) = 0

\* generation 8 of the run: only the two cells at distance 8 from the seed live
C5_Witness ==
    /\ op.name = "run" /\ pc = "run_print"
    /\ op.rule.number = SierpinskiRule
    /\ iteration = 8
    /\ cells[SierpinskiSize \div 2 + 1 - 8] = 1
    /\ cells[SierpinskiSize \div 2 + 1 + 8] = 1
    /\ cells[SierpinskiSize \div 2 + 1] = 0

-----------------------------------------------------------------------------
(* Rule 60 *)

\* C6: Rule(60, n=3) maps (1,1,0) to 0 and (0,1,1) to 1, both in mapping and
\* through get_next_cell.
C6_Rule60Reference ==
    /\ (pc = "done" /\ op.name = "Rule" /\ op.number = Some(60) /\ op.n = 3) =>
          /\ err = "none"
          /\ ret.mapping[<<1, 1, 0>>] = 0
          /\ ret.mapping[<<0, 1, 1>>] = 1
    /\ (/\ pc = "done" /\ op.name = "get_next_cell"
        /\ op.rule.number = 60 /\ op.rule.n = 3) =>
          /\ op.interval_cells = <<1, 1, 0>> => (err = "none" /\ ret = Some(0))
          /\ op.interval_cells = <<0, 1, 1>> => (err = "none" /\ ret = Some(1))

C6_Witness ==
    /\ pc = "done" /\ op.name = "get_next_cell"
    /\ op.rule.number = 60 /\ op.rule.n = 3
    /\ op.interval_cells = <<0, 1, 1>>
    /\ ret = Some(1)

\* C7: the keys of a constructed Rule's mapping are exactly the 2^n tuples of
\* n binary digits; get_next_cell on any such tuple raises nothing and returns
\* 0 or 1.
C7_MappingTotal ==
    /\ (pc = "done" /\ op.name = "Rule" /\ err = "none") =>
          /\ DOMAIN ret.mapping = [1..ret.n -> {0, 1}]
          /\ Cardinality(DOMAIN ret.mapping) = 2^ret.n
          /\ \A key \in DOMAIN ret.mapping : ret.mapping[key] \in {0, 1}
    /\ (/\ pc = "done" /\ op.name = "get_next_cell"
        /\ op.interval_cells \in [1..op.rule.n -> {0, 1}]) =>
          /\ err = "none"
          /\ ret \in {Some(0), Some(1)}

C7_Witness ==
    /\ pc = "done" /\ op.name = "get_next_cell"
    /\ op.rule.n = 3 /\ op.rule.number = 255
    /\ op.interval_cells = <<0, 0, 0>>
    /\ ret = Some(1)

-----------------------------------------------------------------------------
(* The all-zero ring *)

\* the rule of the call in progress maps the all-zero neighbourhood to 0
ZeroToZero == op.rule.mapping[zeroes(op.rule.n)] = 0

\* C8: under a rule that maps the all-zero neighbourhood to 0, next_generation
\* on an all-zero ring installs an all-zero ring, and a run started on an
\* all-zero ring (its first printed line is blank) holds an all-zero ring
\* after any number of generations.
C8_ZeroAbsorbing ==
    /\ []((/\ op.name = "run" /\ out # <<>> /\ out[1] = str(zeroes(size))
           /\ ZeroToZero) => cells = zeroes(size))
    /\ [][(/\ pc = "next_generation" /\ cells = zeroes(size) /\ ZeroToZero)
             => cells' = zeroes(size)]_vars

C8_Witness ==
    /\ op.name = "run" /\ pc = "done"
    /\ size = 3 /\ iteration = 3
    /\ op.rule.n = 3 /\ op.rule.number = 1
    /\ out[1] = str(zeroes(size))
    /\ cells = zeroes(size)

-----------------------------------------------------------------------------
(* init_single *)

\* exactly the cell at 0-based position p is 1
SingleAt(cs, s, p) ==
    /\ Len(cs) = s
    /\ \A k \in 0..(s - 1) : cs[k + 1] = IF k = p THEN 1 ELSE 0

\* C9: init_single() leaves exactly cell size // 2 at 1; init_single(pos) with
\* 0 <= pos < size leaves exactly cell pos at 1; with pos < 0 or pos >= size it
\* fails with an assertion failure.
C9_InitSingle ==
    (pc = "done" /\ op.name = "init_single") =>
        IF op.pos = None
        THEN err = "none" /\ SingleAt(cells, size, size \div 2)
        ELSE IF 0 <= op.pos[1] /\ op.pos[1] < size
        THEN err = "none" /\ SingleAt(cells, size, op.pos[1])
        ELSE err = "AssertionError"

C9_Witness ==
    /\ pc = "done" /\ op.name = "init_single" /\ op.pos = None
    /\ size = 3 /\ cells = <<0, 1, 0>>

C9_WitnessOutOfRange ==
    /\ pc = "done" /\ op.name = "init_single" /\ op.pos = Some(3)
    /\ size = 3 /\ err = "AssertionError"

-----------------------------------------------------------------------------
(* binary *)

RECURSIVE WeightedSum(_)
\* sum over k of t[k] * 2^(digits-1-k) for a tuple t of digits values
WeightedSum(t) ==
    IF t = <<>> THEN 0
    ELSE t[1] * 2^(Len(t) - 1) + WeightedSum(Tail(t))

\* C10: for digits >= 0 and 0 <= number < 2^digits, binary(number, digits)
\* returns exactly `digits` values, each 0 or 1, whose weighted sum is number;
\* otherwise it fails with an assertion failure and returns nothing.
C10_BinaryTuple ==
    (pc = "done" /\ op.name = "binary") =>
        IF 0 <= op.number /\ op.number < 2^op.digits
        THEN /\ err = "none"
             /\ Len(ret) = op.digits
             /\ \A k \in 1..Len(ret) : ret[k] \in {0, 1}
             /\ WeightedSum(ret) = op.number
        ELSE err = "AssertionError" /\ ret = None

-----------------------------------------------------------------------------
(* Rule construction *)

\* C11: with an explicitly supplied number and n >= 1, Rule(number, n)
\* succeeds iff n is odd and 0 <= number < 2^(2^n); otherwise it fails with an
\* assertion failure and no Rule object is produced.
C11_RuleConstructionIff ==
    (pc = "done" /\ op.name = "Rule" /\ op.number # None) =>
        LET number == op.number[1]
            n == op.n
        IN  IF n % 2 = 1 /\ 0 <= number /\ number < 2^(2^n)
            THEN /\ err = "none"
                 /\ ret.number = number
                 /\ ret.n = n
                 /\ DOMAIN ret.mapping # {}
            ELSE err = "AssertionError" /\ ret = None

\* a negative number is rejected although it passes "number < 2 ** (2**n)"
C11_Witness ==
    /\ pc = "done" /\ op.name = "Rule"
    /\ op.number = Some(-1) /\ op.n = 3
    /\ err = "AssertionError" /\ ret = None

-----------------------------------------------------------------------------
(* The cell sequence *)

\* C12: in every state reached by size assignments, init_zeroes, init_single,
\* randomize, next_generation and run steps, cells has exactly `size` entries
\* and every entry is 0 or 1.
C12_CellsShape ==
    /\ size >= 1
    /\ Len(cells) = size
    /\ DOMAIN cells = 1..size
    /\ \A k \in 1..size : cells[k] \in {0, 1}

\* a ring resized and evolved inside a run
C12_Witness ==
    /\ op.name = "run" /\ pc = "run_check" /\ iteration = 1
    /\ size = 3 /\ cells = <<1, 0, 1>>

\* C13: assigning size to a positive value v, also the value it already has,
\* leaves size = v and cells equal to v zeros, whatever the cells held before.
C13_ResizeZeroes ==
    [][(pc = "idle" /\ pc' = "done" /\ op'.name = "size") =>
          /\ size' = op'.value
          /\ Len(cells') = op'.value
          /\ \A k \in 1..op'.value : cells'[k] = 0
          /\ err' = "none"]_vars

\* size 3 has been assigned (also reached from a ring that already had size 3)
C13_Witness ==
    /\ pc = "done" /\ op.name = "size" /\ op.value = 3
    /\ size = 3 /\ cells = <<0, 0, 0>>

\* C14 as stated: init_single with an explicit position outside [0, size)
\* fails and leaves the cells exactly as they were before the call.
C14_FailedSeedKeepsCells ==
    [][(/\ pc = "idle" /\ pc' = "done" /\ op'.name = "init_single"
        /\ op'.pos # None /\ ~(0 <= op'.pos[1] /\ op'.pos[1] < size))
          => (err' = "AssertionError" /\ cells' = cells)]_vars

-----------------------------------------------------------------------------
(* The sweep of next_generation *)

\* the rule's output for position idx (0-based) of the generation cs
NewCell(cs, rule, idx) ==
    rule.mapping[[k \in 1..rule.n |->
                    cs[((idx - rule.n \div 2 + k - 1) % Len(cs)) + 1]]]

\* C15: throughout the sweep of next_generation self.cells stays the
\* pre-update generation (within run: the line printed just before the sweep),
\* every value computed so far was read from that generation only, and cells is
\* replaced by the complete new generation in the one step that ends the sweep.
C15_ReadAllBeforeWriteAny ==
    /\ []((op.name = "run" /\ pc = "next_generation") =>
            (out # <<>> /\ str(cells) = out[Len(out)]))
    /\ [](pc = "next_generation" =>
            /\ i <= size
            /\ Len(next_cells) = i
            /\ \A k \in 1..Len(next_cells) :
                  next_cells[k] = NewCell(cells, op.rule, k - 1))
    /\ [][pc = "next_generation" =>
            IF i < size
            THEN cells' = cells
            ELSE /\ Len(next_cells) = size
                 /\ cells' = next_cells
                 /\ pc' # "next_generation"]_vars

\* mid-sweep: two new values computed, both differing from the cells they
\* will replace, and cells still the old generation
C15_Witness ==
    /\ pc = "next_generation" /\ op.rule.n = 3 /\ op.rule.number = 90
    /\ size = 3 /\ i = 2
    /\ cells = <<0, 1, 0>>
    /\ next_cells = <<1, 0>>

-----------------------------------------------------------------------------
(* The lines printed by run *)

\* the generation that follows cs under rule, position by position
NextGen(cs, rule) == [k \in 1..Len(cs) |-> NewCell(cs, rule, k - 1)]

\* the cells a printed line renders
CellsOf(line) == [k \in 1..Len(line) |-> IF line[k] = "#" THEN 1 ELSE 0]

LastLine == out[Len(out)]

\* C16: run prints first and then advances, strictly alternating: the first
\* line is the state run was called on, each further line is the previous
\* line advanced by exactly one generation, as many lines as advances have been
\* made when the loop tests its limit, and the state left at the stop is one
\* advance past the last printed line (it is generation k when k lines,
\* generations 0..k-1, were printed).
C16_EmitThenAdvance ==
    /\ [](op.name = "run" =>
            /\ Len(out) = IF pc \in {"run_print", "done"}
                          THEN iteration ELSE iteration + 1
            /\ \A k \in 1..(Len(out) - 1) :
                  out[k + 1] = str(NextGen(CellsOf(out[k]), op.rule))
            /\ (pc = "next_generation") => cells = CellsOf(LastLine)
            /\ (pc \in {"run_check", "done"} \/ (pc = "run_print" /\ out # <<>>))
                  => cells = NextGen(CellsOf(LastLine), op.rule))
    /\ [][(pc = "idle" /\ pc' = "run_print") =>
            (cells' = cells /\ out' = <<>> /\ iteration' = 0)]_vars
    /\ [][pc = "run_print" =>
            /\ out' = Append(out, str(cells))
            /\ cells' = cells
            /\ iteration' = iteration
            /\ pc' = "next_generation"]_vars

\* a finished run of three lines whose final state is none of the printed lines
C16_Witness ==
    /\ op.name = "run" /\ pc = "done"
    /\ size = 3 /\ iteration = 3 /\ Len(out) = 3
    /\ out[1] = str(<<0, 1, 0>>)
    /\ \A k \in 1..Len(out) : out[k] # str(cells)

-----------------------------------------------------------------------------
(* run with iteration_limit omitted *)

RunDefault == op.name = "run" /\ op.iteration_limit = None

-----------------------------------------------------------------------------
(* Frame of stepping *)

Stepping == pc \in {"next_generation", "run_print", "run_check"}

\* C18: the steps of next_generation (its calls of get_next_cell included) and
\* of run change neither the automaton's size nor the rule's number, n and
\* mapping, and the mapping in use is at every step the one derived from the
\* rule's number and n, so a neighbourhood has the same output at every
\* generation.
C18_SteppingFrame ==
    /\ [][Stepping =>
            /\ size' = size
            /\ op'.rule.number = op.rule.number
            /\ op'.rule.n = op.rule.n
            /\ op'.rule.mapping = op.rule.mapping
            /\ op' = op]_vars
    /\ []((Stepping \/ (pc = "done" /\ op.name \in {"next_generation", "run"})) =>
            /\ op.rule.mapping = get_mapping(op.rule.number, op.rule.n)
            /\ DOMAIN op.rule.mapping = [1..op.rule.n -> {0, 1}])

\* a run that changed the cells three times under one rule
C18_Witness ==
    /\ op.name = "run" /\ pc = "done" /\ iteration = 3
    /\ size = 3 /\ op.rule.n = 3 /\ op.rule.number = 110
    /\ cells # CellsOf(out[1])
    /\ out[2] # out[1] /\ out[3] # out[2]

=============================================================================
